---- MODULE Spec2Model ----
(***************************************************************************)
(* vmjuggler: a facade over the pyVmomi SDK.                               *)
(*                                                                         *)
(* The module models vmjuggler/base_objects.py and vmjuggler/helpers.py:   *)
(*   - the VCenter object (policy flags, connect/disconnect, get_<kind>),  *)
(*   - the typed wrappers and their constructors,                          *)
(*   - VirtualMachine's snapshot operations over the remote snapshot tree, *)
(*   - VMSnapshot.remove / rename / revert,                                *)
(*   - the task helper do_task, BaseVCObject._do and the guest operations  *)
(*     shutdown / terminate / reboot,                                      *)
(*   - the remote sessions and the exit hooks connect registers.           *)
(*                                                                         *)
(* Python values are tagged records: the field py holds the Python type    *)
(* name, so that values of different types can be told apart.  The result  *)
(* of the last call is kept in ret: either Return(value) or Raise(...).    *)
(***************************************************************************)
EXTENDS Integers, Sequences, FiniteSets, TLC

VARIABLES
    si,              \* VCenter.si: session handle, PyNone until connected
    content,         \* VCenter.content: service content handle
    _raw_global,     \* VCenter._raw_global
    _return_single,  \* VCenter._return_single
    tree,            \* remote: the VM's snapshot tree, node id -> [name, parent]
    currentSnapshot, \* remote: id of the VM's current snapshot, 0 when there is none
    wrapper,         \* a VMSnapshot wrapper object held by the caller (PyNone when none)
    sessions,        \* remote: session id -> number of Disconnect calls made on it
    atexit,          \* the session handles registered with atexit, in order
    remote_calls,    \* remote calls issued by the last operation, in order
    call,            \* the last operation and its arguments
    ret              \* what the last operation returned or raised

vars == <<si, content, _raw_global, _return_single, tree, currentSnapshot,
          wrapper, sessions, atexit, remote_calls, call, ret>>

vcVars == <<si, content, _raw_global, _return_single>>
vmVars == <<tree, currentSnapshot, wrapper>>
exitVars == <<sessions, atexit>>

-----------------------------------------------------------------------------
(* Bounds of the model *)

MaxListing == 3   \* longest container-view listing
MaxNames == 2     \* longest list of requested names
MaxNodes == 3     \* most snapshots in a generated snapshot tree

ObjNames == {"a", "b"}     \* names of inventory objects
SnapNames == {"x", "y"}    \* names of snapshots

-----------------------------------------------------------------------------
(* Python values *)

PyNone == [py |-> "NoneType"]
PyBool(b) == [py |-> "bool", v |-> b]
PyInt(i) == [py |-> "int", v |-> i]
PyStr(s) == [py |-> "str", v |-> s]
PyList(s) == [py |-> "list", v |-> s]

Return(value) == [status |-> "return", value |-> value]
Raise(exc, args) == [status |-> "raise", exc |-> exc, args |-> args]

Returned == ret.status = "return"
Raised(exc) == ret.status = "raise" /\ ret.exc = exc

RECURSIVE SeqsUpTo(_, _)
SeqsUpTo(S, n) ==
    IF n = 0 THEN {<<>>}
    ELSE LET shorter == SeqsUpTo(S, n - 1)
         IN shorter \cup {Append(s, e) : s \in {t \in shorter : Len(t) = n - 1}, e \in S}

Range(s) == {s[i] : i \in 1..Len(s)}

\* The caller is between two calls: the last result has been taken.
Idle == call.op = "idle"

\* The process has left through exit(1).
Exited == ret.status = "raise" /\ ret.exc = "SystemExit"

\* The interpreter has ended: the exit hooks have run.
Terminated == call.op = "exit"

\* The caller takes the result of the call that has just ended; the next call starts
\* from here.  Nothing of the library runs in this step.
ReturnToCaller ==
    /\ ~Idle
    /\ ~Exited
    /\ ~Terminated
    /\ call' = [op |-> "idle"]
    /\ ret' = Return(PyNone)
    /\ remote_calls' = <<>>
    /\ wrapper' = PyNone
    /\ UNCHANGED <<si, content, _raw_global, _return_single, tree, currentSnapshot,
                   exitVars>>

-----------------------------------------------------------------------------
(* pyVmomi managed-object handles and the typed wrappers *)

\* The vim types the library names, and two subtypes pyVmomi derives from them.
VimTypes == {"vim.VirtualMachine", "vim.Datacenter", "vim.Folder", "vim.VirtualApp",
             "vim.Network", "vim.Datastore", "vim.HostSystem", "vim.vm.SnapshotTree",
             "vim.dvs.DistributedVirtualPortgroup", "vim.StoragePod"}

\* The direct base of a vim type within VimTypes ("" when it has none there).
VimBase(t) ==
    CASE t = "vim.dvs.DistributedVirtualPortgroup" -> "vim.Network"
      [] t = "vim.StoragePod" -> "vim.Folder"
      [] OTHER -> ""

\* isinstance(vc_object, expect)
isinstance(vc_object, expect) ==
    vc_object.py = expect \/ VimBase(vc_object.py) = expect

Handle(type, name, moId) == [py |-> type, name |-> name, moId |-> moId]

\* exceptions.WrongObjectTypeError(<first>, <second>): carries the two names it is given.
WrongObjectTypeError(first, second) == Raise("WrongObjectTypeError", <<first, second>>)

\* BaseVCObject.__init__
BaseVCObject(vc_object) ==
    Return([py |-> "BaseVCObject", _raw_obj |-> vc_object, _name |-> vc_object.name,
            _ex |-> {"vmodl.RuntimeFault"}])

\* The shape shared by every typed wrapper's __init__.
TypedInit(cls, expect, common_exceptions, vc_object) ==
    IF isinstance(vc_object, expect)
    THEN Return([py |-> cls, _raw_obj |-> vc_object, _name |-> vc_object.name,
                 _ex |-> {"vmodl.RuntimeFault"} \cup common_exceptions])
    ELSE WrongObjectTypeError(cls, expect)

VirtualMachine(vc_object) ==
    TypedInit("VirtualMachine", "vim.VirtualMachine",
              {"vmodl.fault.NotSupported", "vim.fault.TaskInProgress",
               "vim.fault.InvalidState", "vim.fault.InvalidPowerState"}, vc_object)
Datacenter(vc_object) == TypedInit("Datacenter", "vim.Datacenter", {}, vc_object)
Folder(vc_object) == TypedInit("Folder", "vim.Folder", {}, vc_object)
VApp(vc_object) == TypedInit("VApp", "vim.VirtualApp", {}, vc_object)
Network(vc_object) == TypedInit("Network", "vim.Network", {}, vc_object)
Datastore(vc_object) == TypedInit("Datastore", "vim.Datastore", {}, vc_object)
Host(vc_object) == TypedInit("Host", "vim.HostSystem", {}, vc_object)
VMSnapshot(vc_object) == TypedInit("VMSnapshot", "vim.vm.SnapshotTree", {}, vc_object)

WrapperClasses == {"BaseVCObject", "VirtualMachine", "Datacenter", "Folder", "VApp",
                   "Network", "Datastore", "Host", "VMSnapshot"}

\* Calling the class return_type on el.
Construct(return_type, el) ==
    CASE return_type = "VirtualMachine" -> VirtualMachine(el)
      [] return_type = "Datacenter" -> Datacenter(el)
      [] return_type = "Folder" -> Folder(el)
      [] return_type = "VApp" -> VApp(el)
      [] return_type = "Network" -> Network(el)
      [] return_type = "Datastore" -> Datastore(el)
      [] return_type = "Host" -> Host(el)
      [] return_type = "VMSnapshot" -> VMSnapshot(el)
      [] OTHER -> BaseVCObject(el)

\* The vim type each typed wrapper expects.
Expect(cls) ==
    CASE cls = "VirtualMachine" -> "vim.VirtualMachine"
      [] cls = "Datacenter" -> "vim.Datacenter"
      [] cls = "Folder" -> "vim.Folder"
      [] cls = "VApp" -> "vim.VirtualApp"
      [] cls = "Network" -> "vim.Network"
      [] cls = "Datastore" -> "vim.Datastore"
      [] cls = "Host" -> "vim.HostSystem"
      [] cls = "VMSnapshot" -> "vim.vm.SnapshotTree"
      [] OTHER -> ""

-----------------------------------------------------------------------------
(* VCenter: policy flags *)

\* Truth value of a Python value, as `if value:` takes it.
Truthy(value) ==
    CASE value.py = "NoneType" -> FALSE
      [] value.py = "bool" -> value.v
      [] value.py = "int" -> value.v # 0
      [] value.py = "str" -> value.v # ""
      [] value.py = "list" -> Len(value.v) > 0
      [] OTHER -> TRUE

\* Values a caller may hand to the setters.
SetterValues == {PyNone, PyBool(TRUE), PyBool(FALSE), PyInt(0), PyInt(1), PyStr("yes")}

\* isinstance(value, int) in the place of isinstance(value, bool): ints pass as well.
isinstance_int(value) == value.py \in {"bool", "int"}

\* isinstance(value, bool)
isinstance_bool(value) == value.py = "bool"

\* VCenter.set_raw_global(value)
set_raw_global(value) ==
    /\ Idle
    /\ IF value.py = "NoneType" \/ isinstance_bool(value)
       THEN /\ _raw_global' = value
            /\ ret' = Return(value)
       ELSE /\ _raw_global' = _raw_global
            /\ ret' = Raise("TypeError", <<"Boolean or None expected">>)
    /\ call' = [op |-> "set_raw_global", value |-> value]
    /\ remote_calls' = <<>>
    /\ UNCHANGED <<si, content, _return_single, vmVars, exitVars>>

\* VCenter.set_return_single(value)
set_return_single(value) ==
    /\ Idle
    /\ IF isinstance_bool(value)
       THEN /\ _return_single' = value
            /\ ret' = Return(value)
       ELSE /\ _return_single' = _return_single
            /\ ret' = Raise("TypeError", <<"Boolean expected">>)
    /\ call' = [op |-> "set_return_single", value |-> value]
    /\ remote_calls' = <<>>
    /\ UNCHANGED <<si, content, _raw_global, vmVars, exitVars>>

\* The absent class: what _get_return_type yields when raw handles are wanted.
None == "None"

\* _get_return_type deciding by the per-call raw flag alone (raw_global unread).
_get_return_type_by_raw(raw_global, return_type, raw) ==
    IF raw THEN None ELSE return_type

\* VCenter._get_return_type(return_type, raw)
_get_return_type(raw_global, return_type, raw) ==
    IF raw_global.py = "NoneType"
    THEN (IF raw THEN None ELSE return_type)
    ELSE IF Truthy(raw_global) THEN None
    ELSE return_type

-----------------------------------------------------------------------------
(* VCenter: retrieval *)

\* The names a requested-name argument holds, after `[name] if isinstance(name, str)`.
NameList(name) == IF name.py = "str" THEN <<name.v>> ELSE name.v

\* Lines 220-228: the scan of obj_list from position i on, r and cnt as the loop has them.
RECURSIVE ScanNames(_, _, _, _, _)
ScanNames(obj_list, i, names, r, cnt) ==
    IF i > Len(obj_list) THEN r
    ELSE LET el == obj_list[i]
             hit == \E k \in 1..Len(names) : el.name = names[k]
             r2 == IF hit THEN Append(r, el) ELSE r
             cnt2 == IF hit THEN cnt - 1 ELSE cnt
         IN IF cnt2 = 0 THEN r2
            ELSE ScanNames(obj_list, i + 1, names, r2, cnt2)

\* The selection with the name test before the get_all test.
SelectObjectsNameFirst(obj_list, name, get_all) ==
    IF name.py # "NoneType"
    THEN ScanNames(obj_list, 1, NameList(name), <<>>, Len(NameList(name)))
    ELSE IF get_all THEN obj_list
    ELSE <<>>

\* Lines 214-228: the objects selected from the listing.
SelectObjects(obj_list, name, get_all) ==
    IF get_all THEN obj_list
    ELSE IF name.py # "NoneType"
         THEN ScanNames(obj_list, 1, NameList(name), <<>>, Len(NameList(name)))
         ELSE <<>>

\* Lines 230-235: each selected object through return_type, the first error propagating.
WrapAll(r, return_type) ==
    IF return_type = None THEN Return(r)
    ELSE LET rn == [i \in 1..Len(r) |-> Construct(return_type, r[i])]
             bad == {i \in 1..Len(r) : rn[i].status = "raise"}
         IN IF bad # {}
            THEN rn[CHOOSE i \in bad : \A j \in bad : i <= j]
            ELSE Return([i \in 1..Len(r) |-> rn[i].value])

\* VCenter._get_vc_objects, given the listing obj_view.view the remote side returns.
_get_vc_objects(the_content, obj_list, name, get_all, return_type) ==
    IF the_content.py = "NoneType"
    THEN Raise("AttributeError", <<"NoneType", "content">>)
    ELSE WrapAll(SelectObjects(obj_list, name, get_all), return_type)

\* single_object without its empty-list branch (lines 62-63 left out).
single_object_keeps_empty(r, return_single) ==
    IF Len(r) = 1 /\ Truthy(return_single) THEN r[1]
    ELSE PyList(r)

\* VCenter.Decor.single_object: the wrapper's handling of the list r.
single_object(r, return_single) ==
    IF Len(r) = 1 /\ Truthy(return_single) THEN r[1]
    ELSE IF Len(r) = 0 /\ Truthy(return_single) THEN PyNone
    ELSE PyList(r)

\* An argument `name` of a get_<kind> call: absent, one name, or a list of names.
NameArgs ==
    {PyNone} \cup {PyStr(n) : n \in ObjNames}
             \cup {PyList(s) : s \in SeqsUpTo(ObjNames, MaxNames)}

\* The listings a container view may return: objects of one vim type, names repeatable.
Listings(obj_type) ==
    {[i \in 1..Len(s) |-> Handle(obj_type, s[i], i)] : s \in SeqsUpTo(ObjNames, MaxListing)}

\* The session the handle the_content sends its requests through has been logged out.
SessionClosed(sess, the_content) ==
    the_content.py # "NoneType" /\ sess[the_content.id] >= 1

\* The body shared by the get_<kind> accessors (lines 248-252 and alike).  The remote
\* side refuses CreateContainerView on a session that has been logged out.
Accessor(op, return_type, name, obj_list, get_all, raw) ==
    /\ Idle
    /\ LET rt == _get_return_type(_raw_global, return_type, raw)
           r == _get_vc_objects(content, obj_list, name, get_all, rt)
       IN ret' = IF SessionClosed(sessions, content)
                 THEN Raise("vim.fault.NotAuthenticated", <<>>)
                 ELSE IF r.status = "raise" THEN r
                 ELSE Return(single_object(r.value, _return_single))
    /\ call' = [op |-> op, name |-> name, obj_list |-> obj_list,
                get_all |-> get_all, raw |-> raw]
    /\ remote_calls' = IF content.py = "NoneType" THEN <<>> ELSE <<"CreateContainerView">>
    /\ UNCHANGED <<vcVars, vmVars, exitVars>>

get_vm(name, obj_list, get_all, raw) ==
    Accessor("get_vm", "VirtualMachine", name, obj_list, get_all, raw)
get_dc(name, obj_list, get_all, raw) ==
    Accessor("get_dc", "Datacenter", name, obj_list, get_all, raw)
get_folder(name, obj_list, get_all, raw) ==
    Accessor("get_folder", "Folder", name, obj_list, get_all, raw)
get_vapp(name, obj_list, get_all, raw) ==
    Accessor("get_vapp", "VApp", name, obj_list, get_all, raw)
get_network(name, obj_list, get_all, raw) ==
    Accessor("get_network", "Network", name, obj_list, get_all, raw)
get_datastore(name, obj_list, get_all, raw) ==
    Accessor("get_datastore", "Datastore", name, obj_list, get_all, raw)
get_host(name, obj_list, get_all, raw) ==
    Accessor("get_host", "Host", name, obj_list, get_all, raw)
get_all(name, obj_list, get_all_, raw) ==
    Accessor("get_all", "BaseVCObject", name, obj_list, get_all_, raw)

AccessorOps == {"get_vm", "get_dc", "get_folder", "get_vapp", "get_network",
                "get_datastore", "get_host", "get_all"}

\* VCenter.connect(exit_on_fault), with the outcome of the two remote steps.
ConnectOutcomes == {"ok", "InvalidLogin", "SmartConnectError", "RetrieveError"}

\* The n sessions the remote side can hand out in one run of the model.
SessionIds == {1, 2}

\* The ServiceInstance of session id, and its content.
Session(id) == [py |-> "vim.ServiceInstance", id |-> id]
Content(id) == [py |-> "vim.ServiceInstanceContent", id |-> id]

\* The id of the session SmartConnectNoSSL establishes next.
NewSessionId(sess) ==
    CHOOSE id \in SessionIds \ DOMAIN sess : \A other \in SessionIds \ DOMAIN sess : id <= other

\* pyVim's Disconnect(s) on the remote side: one more logout of s's session (none for
\* a handle that is no session).
Logout(sess, s) ==
    IF s.py = "vim.ServiceInstance" THEN [sess EXCEPT ![s.id] = @ + 1] ELSE sess

connect(exit_on_fault, outcome) ==
    LET established == outcome \in {"ok", "RetrieveError"}
        id == NewSessionId(sessions)
    IN /\ Idle
       /\ established => SessionIds \ DOMAIN sessions # {}
       /\ si' = IF established THEN Session(id) ELSE si
       /\ content' = IF outcome = "ok" THEN Content(id) ELSE content
       /\ sessions' = IF established
                      THEN [i \in DOMAIN sessions \cup {id} |->
                               IF i = id THEN 0 ELSE sessions[i]]
                      ELSE sessions
       /\ atexit' = IF outcome = "ok" THEN Append(atexit, Session(id)) ELSE atexit
       /\ ret' = IF outcome = "ok" THEN Return(Session(id))
                 ELSE IF exit_on_fault THEN Raise("SystemExit", <<1>>)
                 ELSE Return(PyNone)
       /\ call' = [op |-> "connect", exit_on_fault |-> exit_on_fault, outcome |-> outcome]
       /\ remote_calls' = IF established
                          THEN <<"SmartConnectNoSSL", "RetrieveServiceContent">>
                          ELSE <<"SmartConnectNoSSL">>
       /\ UNCHANGED <<_raw_global, _return_single, vmVars>>

\* disconnect closing whatever self.si holds, without the test of line 114.
HasSessionAlways(the_si) == TRUE

\* Line 114: if self.si
HasSession(the_si) == Truthy(the_si)

\* VCenter.disconnect()
disconnect ==
    /\ Idle
    /\ IF HasSession(si)
       THEN /\ si' = PyNone
            /\ sessions' = Logout(sessions, si)
            /\ remote_calls' = <<"Disconnect">>
       ELSE /\ si' = si
            /\ sessions' = sessions
            /\ remote_calls' = <<>>
    /\ ret' = Return(PyInt(0))
    /\ call' = [op |-> "disconnect"]
    /\ UNCHANGED <<content, _raw_global, _return_single, vmVars, atexit>>

\* The hooks atexit runs, last registered first, from position i down: Disconnect(si)
\* for each handle connect registered.
RECURSIVE RunExitHooks(_, _, _)
RunExitHooks(sess, hooks, i) ==
    IF i = 0 THEN sess
    ELSE RunExitHooks(Logout(sess, hooks[i]), hooks, i - 1)

\* The interpreter ends, after the caller's last call or through exit(1) in connect,
\* and runs the exit hooks.
ProcessExit ==
    /\ Idle \/ Exited
    /\ ~Terminated
    /\ sessions' = RunExitHooks(sessions, atexit, Len(atexit))
    /\ atexit' = <<>>
    /\ remote_calls' = [i \in 1..Len(atexit) |-> "Disconnect"]
    /\ call' = [op |-> "exit", status |-> IF Exited THEN 1 ELSE 0]
    /\ ret' = Return(PyNone)
    /\ UNCHANGED <<vcVars, vmVars>>

-----------------------------------------------------------------------------
(* The remote snapshot tree of one virtual machine                          *)
(*                                                                          *)
(* tree maps the id of each existing snapshot to its name and the id of its *)
(* parent (0 for a root).  raw_obj.snapshot is None exactly when the VM has *)
(* no snapshot.  Sibling lists are in ascending id order.                   *)

RECURSIVE SortedSeq(_)
SortedSeq(S) ==
    IF S = {} THEN <<>>
    ELSE LET m == CHOOSE x \in S : \A y \in S : x <= y
         IN <<m>> \o SortedSeq(S \ {m})

\* raw_obj.snapshot.rootSnapshotList
rootSnapshotList(t) == SortedSeq({n \in DOMAIN t : t[n].parent = 0})

\* snl.childSnapshotList
childSnapshotList(t, snl) == SortedSeq({n \in DOMAIN t : t[n].parent = snl})

\* VirtualMachine._is_snap_exists
_is_snap_exists(t) == DOMAIN t # {}

\* The vim.vm.SnapshotTree object of node n, as the remote side hands it out.
SnapshotTreeObj(t, n) == Handle("vim.vm.SnapshotTree", t[n].name, n)

\* The node put after its subtree's matches instead of before them (r.append(rr)).
InsertLast(r, rr) == r \o <<rr>>

\* Line 474: r.insert(0, rr)
InsertFirst(r, rr) == <<rr>> \o r

\* Lines 475-483: what the loop over r adds to sn_list.
MatchesOf(t, r, name, mo_id) ==
    IF name.py = "NoneType" /\ mo_id = 0 THEN r
    ELSE LET hit(el) == \/ (name.py = "str" /\ t[el].name = name.v)
                        \/ (mo_id # 0 /\ el = mo_id)
             hits == {i \in 1..Len(r) : hit(r[i])}
         IN IF hits = {} THEN <<>>
            ELSE <<r[CHOOSE i \in hits : \A j \in hits : i <= j]>>

\* Lines 469-484: _get_snaps over the node list root (mo_id 0 stands for None).
RECURSIVE _get_snaps_in(_, _, _, _)
_get_snaps_in(t, root, name, mo_id) ==
    IF root = <<>> THEN <<>>
    ELSE LET snl == Head(root)
             r == InsertFirst(_get_snaps_in(t, childSnapshotList(t, snl), name, mo_id), snl)
         IN MatchesOf(t, r, name, mo_id) \o _get_snaps_in(t, Tail(root), name, mo_id)

\* VirtualMachine._get_snaps(name=..., mo_id=...), called with root=None.
_get_snaps(t, name, mo_id) ==
    IF ~_is_snap_exists(t) THEN <<>>
    ELSE _get_snaps_in(t, rootSnapshotList(t), name, mo_id)

\* get_snap handing the name to _get_snaps along with the current snapshot's id
\* (self._get_snaps(name=sn_name, mo_id=sn._moId) at line 505).
get_snap_name_and_current(t, cur, name, current, get_all_, raw) ==
    IF name.py = "NoneType" /\ ~current /\ ~get_all_ THEN Return(<<>>)
    ELSE LET sn_name == IF get_all_ THEN PyNone ELSE name
             current2 == IF get_all_ THEN FALSE ELSE current
         IN IF current2 /\ ~_is_snap_exists(t)
            THEN Raise("AttributeError", <<"NoneType", "currentSnapshot">>)
            ELSE IF current2 /\ cur = 0
            THEN Raise("AttributeError", <<"NoneType", "_moId">>)
            ELSE LET snls == IF current2 THEN _get_snaps(t, sn_name, cur)
                             ELSE _get_snaps(t, sn_name, 0)
                     objs == [i \in 1..Len(snls) |-> SnapshotTreeObj(t, snls[i])]
                 IN IF ~raw THEN WrapAll(objs, "VMSnapshot") ELSE Return(objs)

\* VirtualMachine.get_snap(name, current, get_all, raw) on the tree t with current
\* snapshot cur: Return(list) or the error raised.
get_snap(t, cur, name, current, get_all_, raw) ==
    IF name.py = "NoneType" /\ ~current /\ ~get_all_ THEN Return(<<>>)
    ELSE LET sn_name == IF get_all_ THEN PyNone ELSE name
             current2 == IF get_all_ THEN FALSE ELSE current
         IN IF current2 /\ ~_is_snap_exists(t)
            THEN Raise("AttributeError", <<"NoneType", "currentSnapshot">>)
            ELSE IF current2 /\ cur = 0
            THEN Raise("AttributeError", <<"NoneType", "_moId">>)
            ELSE LET snls == IF current2 THEN _get_snaps(t, PyNone, cur)
                             ELSE _get_snaps(t, sn_name, 0)
                     objs == [i \in 1..Len(snls) |-> SnapshotTreeObj(t, snls[i])]
                 IN IF ~raw THEN WrapAll(objs, "VMSnapshot") ELSE Return(objs)

\* Whether get_snap reads raw_obj.snapshot (it returns before that when no selector is given).
ReadsSnapshot(name, current, get_all_) ==
    ~(name.py = "NoneType" /\ ~current /\ ~get_all_)

-----------------------------------------------------------------------------
(* The task helper *)

\* What pyVim's WaitForTask hands back for a task that succeeded.
TaskResult == [py |-> "vim.TaskInfo.State", v |-> "success"]

\* The base class of a fault class in pyVmomi ("" for the root, vmodl.MethodFault).
FaultBase(f) ==
    CASE f = "vmodl.RuntimeFault" -> "vmodl.MethodFault"
      [] f = "vim.fault.VimFault" -> "vmodl.MethodFault"
      [] f = "vim.fault.SecurityError" -> "vmodl.RuntimeFault"
      [] f = "vim.fault.NoPermission" -> "vim.fault.SecurityError"
      [] f = "vmodl.fault.NotSupported" -> "vmodl.RuntimeFault"
      [] f = "vmodl.fault.ManagedObjectNotFound" -> "vmodl.RuntimeFault"
      [] f = "vim.fault.TaskInProgress" -> "vim.fault.VimFault"
      [] f = "vim.fault.NotFound" -> "vim.fault.VimFault"
      [] f = "vim.fault.ToolsUnavailable" -> "vim.fault.VimFault"
      [] f = "vim.fault.InvalidState" -> "vim.fault.VimFault"
      [] f = "vim.fault.InvalidPowerState" -> "vim.fault.InvalidState"
      [] f = "vim.fault.FileFault" -> "vim.fault.VimFault"
      [] OTHER -> ""

RECURSIVE FaultClasses(_)
FaultClasses(f) == IF f = "" THEN {} ELSE {f} \cup FaultClasses(FaultBase(f))

\* `except classes`: the raised fault is an instance of one of the classes.
Catches(classes, fault) == FaultClasses(fault) \cap classes # {}

\* The outcome of WaitForTask(func(**kwargs)): the fault of starting the task if that
\* raises, else that of awaiting it.
WaitForTask(started, awaited) == IF started # "success" THEN started ELSE awaited

\* do_task catching nothing beyond what the caller names (common_exceptions left out).
do_task_no_common(outcome, catch_exception) ==
    IF outcome = "success" THEN Return(TaskResult)
    ELSE IF Catches(catch_exception, outcome) THEN Return(PyBool(FALSE))
    ELSE Raise(outcome, <<>>)

\* VMJHelper.do_task: outcome is "success" or the fault the task raises.
do_task(outcome, catch_exception) ==
    LET common_exceptions == {"vim.fault.NoPermission"}
        exceptions_to_catch == IF catch_exception # {}
                               THEN common_exceptions \cup catch_exception
                               ELSE common_exceptions
    IN IF outcome = "success" THEN Return(TaskResult)
       ELSE IF Catches(exceptions_to_catch, outcome) THEN Return(PyBool(FALSE))
       ELSE Raise(outcome, <<>>)

\* BaseVCObject._do(task, catch_exception): catch_exception is a Python value, a list
\* of fault classes or None.
_do(self, outcome, catch_exception) ==
    LET ex == IF catch_exception.py = "list"
              THEN self._ex \cup Range(catch_exception.v)
              ELSE self._ex
    IN IF outcome = "success" THEN Return(PyBool(TRUE))
       ELSE IF Catches(ex, outcome) THEN Return(PyBool(FALSE))
       ELSE Raise(outcome, <<>>)

\* Outcomes of a remote task the model draws from.
TaskOutcomes == {"success", "vim.fault.NotFound", "vim.fault.TaskInProgress",
                 "vim.fault.NoPermission", "vim.fault.InvalidState"}
RemoveOutcomes == {"success", "vim.fault.TaskInProgress", "vim.fault.InvalidState"}

-----------------------------------------------------------------------------
(* Remote effects on the snapshot tree *)

RECURSIVE Descendants(_, _)
Descendants(t, n) ==
    LET kids == {c \in DOMAIN t : t[c].parent = n}
    IN kids \cup UNION {Descendants(t, c) : c \in kids}

\* The tree after the remote side removed snapshot n (with its subtree if removeChildren).
TreeWithout(t, n, removeChildren) ==
    LET gone == IF removeChildren THEN {n} \cup Descendants(t, n) ELSE {n}
    IN [m \in DOMAIN t \ gone |->
          IF t[m].parent = n THEN [t[m] EXCEPT !.parent = t[n].parent] ELSE t[m]]

\* The current snapshot after that removal: the parent takes over from a removed one.
CurrentWithout(t, cur, n, removeChildren) ==
    LET gone == IF removeChildren THEN {n} \cup Descendants(t, n) ELSE {n}
    IN IF cur \in gone THEN t[n].parent ELSE cur

-----------------------------------------------------------------------------
(* VMSnapshot operations *)

\* VMSnapshot.revert(): the remote call and what do_task makes of its outcome.
VMSnapshot_revert(self, outcome) == do_task(outcome, {"vim.fault.NotFound"})

\* VMSnapshot.remove(): the remote call and what do_task makes of its outcome.
VMSnapshot_remove(self, outcome) == do_task(outcome, {"vim.fault.TaskInProgress"})

\* BaseVCObject.name is a property without a setter: assigning to it raises.
SetName(self, value) == Raise("AttributeError", <<"can't set attribute", "name">>)

\* VMSnapshot.rename(name, description), given the remote outcome: the result and the
\* wrapper object afterwards.
VMSnapshot_rename(self, name, description, outcome) ==
    IF outcome = "success"
    THEN LET assigned == SetName(self, IF Truthy(name) THEN name.v ELSE self._name)
         IN IF assigned.status = "raise"
            THEN [ret |-> assigned, self |-> self]
            ELSE [ret |-> Return(PyBool(TRUE)), self |-> assigned.value]
    ELSE IF outcome = "vim.fault.InvalidArgument"
    THEN [ret |-> Return(PyBool(FALSE)), self |-> self]
    ELSE [ret |-> Raise(outcome, <<>>), self |-> self]

RenameOutcomes == {"success", "vim.fault.InvalidArgument", "vim.fault.InvalidState"}

-----------------------------------------------------------------------------
(* VirtualMachine operations, as steps of the caller *)

SnapNameArgs == {PyNone} \cup {PyStr(n) : n \in SnapNames}

ReadSnapshot == [m |-> "snapshot"]

\* VirtualMachine.get_snap
vm_get_snap(name, current, get_all_, raw) ==
    /\ Idle
    /\ ret' = LET r == get_snap(tree, currentSnapshot, name, current, get_all_, raw)
              IN IF r.status = "raise" THEN r ELSE Return(PyList(r.value))
    /\ call' = [op |-> "get_snap", name |-> name, current |-> current,
                get_all |-> get_all_, raw |-> raw]
    /\ remote_calls' = IF ReadsSnapshot(name, current, get_all_) THEN <<ReadSnapshot>> ELSE <<>>
    /\ UNCHANGED <<vcVars, vmVars, exitVars>>

\* Line 536: revert has neither selector.
revert_no_selector(snapshot_name, current) == snapshot_name.py = "NoneType" /\ ~current

\* VirtualMachine.revert(snapshot_name, current), outcome being that of the remote revert.
revert(snapshot_name, current, outcome) ==
    /\ Idle
    /\ call' = [op |-> "revert", snapshot_name |-> snapshot_name, current |-> current,
                tree |-> tree, currentSnapshot |-> currentSnapshot]
    /\ IF revert_no_selector(snapshot_name, current)
       THEN /\ ret' = Return(PyBool(FALSE))
            /\ remote_calls' = <<>>
            /\ UNCHANGED currentSnapshot
       ELSE LET sn == get_snap(tree, currentSnapshot, snapshot_name, current, FALSE, FALSE)
                reads == IF ReadsSnapshot(snapshot_name, current, FALSE)
                         THEN <<ReadSnapshot>> ELSE <<>>
            IN IF sn.status = "raise"
               THEN /\ ret' = sn
                    /\ remote_calls' = reads
                    /\ UNCHANGED currentSnapshot
               ELSE IF Len(sn.value) = 1
               THEN LET node == sn.value[1]._raw_obj.moId
                    IN /\ ret' = VMSnapshot_revert(sn.value[1], outcome)
                       /\ remote_calls' = Append(reads, [m |-> "RevertToSnapshot_Task",
                                                         node |-> node, outcome |-> outcome])
                       /\ currentSnapshot' = IF outcome = "success" THEN node
                                             ELSE currentSnapshot
               ELSE /\ ret' = Return(PyBool(FALSE))
                    /\ remote_calls' = reads
                    /\ UNCHANGED currentSnapshot
    /\ UNCHANGED <<vcVars, tree, wrapper, exitVars>>

\* remove_snap without its check of the selectors (lines 570-572 left out).
remove_snap_unchecked(name, current, remove_all) == FALSE

\* Line 570: remove_snap has no selector.
remove_snap_no_selector(name, current, remove_all) ==
    name.py = "NoneType" /\ ~current /\ ~remove_all

\* The result of the last removal kept instead of the first failure (r = pr).
AccumulateLast(r, pr) == pr

\* Line 578: r = pr if not pr else r
Accumulate(r, pr) == IF ~Truthy(pr) THEN pr ELSE r

\* Lines 576-578: the loop over sn from position i on.  st holds r, the remote tree and
\* current snapshot, the remote calls so far, and the fault that ended the loop if any.
\* outs[i] is the outcome of the i-th removal when its snapshot still exists.
RECURSIVE RemoveEach(_, _, _, _, _)
RemoveEach(sn, outs, i, st, remove_children) ==
    IF i > Len(sn) THEN st
    ELSE LET node == sn[i]._raw_obj.moId
             eff == IF node \in DOMAIN st.t THEN outs[i]
                    ELSE "vmodl.fault.ManagedObjectNotFound"
             pr == VMSnapshot_remove(sn[i], eff)
             log2 == Append(st.log, [m |-> "RemoveSnapshot_Task", node |-> node,
                                     removeChildren |-> remove_children, outcome |-> eff])
         IN IF pr.status = "raise"
            THEN [st EXCEPT !.log = log2, !.exc = eff]
            ELSE RemoveEach(sn, outs, i + 1,
                    [r |-> Accumulate(st.r, pr.value),
                     t |-> IF eff = "success" THEN TreeWithout(st.t, node, remove_children)
                           ELSE st.t,
                     cur |-> IF eff = "success"
                             THEN CurrentWithout(st.t, st.cur, node, remove_children)
                             ELSE st.cur,
                     log |-> log2,
                     exc |-> ""],
                    remove_children)

\* VirtualMachine.remove_snap(name, current, remove_all, remove_children)
remove_snap(name, current, remove_all, remove_children, outs) ==
    /\ Idle
    /\ call' = [op |-> "remove_snap", name |-> name, current |-> current,
                remove_all |-> remove_all, remove_children |-> remove_children,
                tree |-> tree, currentSnapshot |-> currentSnapshot]
    /\ IF remove_snap_no_selector(name, current, remove_all)
       THEN /\ ret' = Return(PyBool(FALSE))
            /\ remote_calls' = <<>>
            /\ UNCHANGED <<tree, currentSnapshot>>
       ELSE LET sn == get_snap(tree, currentSnapshot, name, current, remove_all, FALSE)
                reads == IF ReadsSnapshot(name, current, remove_all)
                         THEN <<ReadSnapshot>> ELSE <<>>
            IN IF sn.status = "raise"
               THEN /\ ret' = sn
                    /\ remote_calls' = reads
                    /\ UNCHANGED <<tree, currentSnapshot>>
               ELSE LET st == RemoveEach(sn.value, outs, 1,
                                  [r |-> PyBool(TRUE), t |-> tree, cur |-> currentSnapshot,
                                   log |-> reads, exc |-> ""], remove_children)
                    IN /\ ret' = IF st.exc # "" THEN Raise(st.exc, <<>>) ELSE Return(st.r)
                       /\ remote_calls' = st.log
                       /\ tree' = st.t
                       /\ currentSnapshot' = st.cur
    /\ UNCHANGED <<vcVars, wrapper, exitVars>>

\* VMSnapshot.rename on the wrapper self of an existing snapshot; the wrapper is kept
\* in the variable wrapper while the caller looks at the result.
rename(self, name, description, outcome) ==
    /\ Idle
    /\ LET res == VMSnapshot_rename(self, name, description, outcome)
           node == self._raw_obj.moId
       IN /\ ret' = res.ret
          /\ wrapper' = res.self
          /\ tree' = IF outcome = "success" /\ name.py = "str"
                     THEN [tree EXCEPT ![node].name = name.v] ELSE tree
          /\ remote_calls' = <<[m |-> "RenameSnapshot", node |-> node, name |-> name,
                                description |-> description, outcome |-> outcome]>>
    /\ call' = [op |-> "rename", self |-> self, name |-> name, description |-> description,
                outcome |-> outcome]
    /\ UNCHANGED <<vcVars, currentSnapshot, exitVars>>

\* The snapshot trees a VM starts with: every ordered forest of up to MaxNodes
\* snapshots with names from SnapNames (nodes numbered level by level, so that parents
\* are non-decreasing), and the tree A -> [B, C], B -> [D].
Shapes(n) ==
    {p \in [1..n -> 0..n] : \A i \in 1..n : p[i] < i /\ (i > 1 => p[i - 1] <= p[i])}

ExampleTree ==
    [n \in 1..4 |-> [name |-> <<"A", "B", "C", "D">>[n], parent |-> <<0, 1, 1, 2>>[n]]]

Forests ==
    UNION {{[i \in 1..n |-> [name |-> nm[i], parent |-> p[i]]] :
               p \in Shapes(n), nm \in [1..n -> SnapNames]} : n \in 0..MaxNodes}
    \cup {ExampleTree}

\* The snapshot specification: a VirtualMachine wrapper obtained through a connected
\* VCenter, over a remote snapshot tree, and one call made on it.  The wrapper keeps
\* nothing between calls and the initial trees are all the trees, so a later call is a
\* first call on the tree the earlier one left.
InitVM ==
    /\ si = Session(1)
    /\ content = Content(1)
    /\ sessions = <<0>>
    /\ atexit = <<Session(1)>>
    /\ _raw_global = PyNone
    /\ _return_single = PyBool(FALSE)
    /\ tree \in Forests
    /\ currentSnapshot \in (IF DOMAIN tree = {} THEN {0} ELSE DOMAIN tree)
    /\ wrapper = PyNone
    /\ remote_calls = <<>>
    /\ call = [op |-> "idle"]
    /\ ret = Return(PyNone)

GetSnap == Idle /\ \E n \in SnapNameArgs, c, g, r \in BOOLEAN : vm_get_snap(n, c, g, r)
Revert == Idle /\ \E n \in SnapNameArgs, c \in BOOLEAN, o \in TaskOutcomes : revert(n, c, o)
\* The selector arguments remove_snap is called with: a name or none, current or not,
\* and remove_all on its own (get_snap ignores the other two under get_all).
RemoveSelectors ==
    {<<n, c, FALSE>> : n \in SnapNameArgs, c \in BOOLEAN} \cup {<<PyNone, FALSE, TRUE>>}

RemoveSnap ==
    Idle /\ \E sel \in RemoveSelectors, rc \in BOOLEAN :
        LET sn == get_snap(tree, currentSnapshot, sel[1], sel[2], sel[3], FALSE)
            k == IF sn.status = "return" THEN Len(sn.value) ELSE 0
        IN \E outs \in [1..k -> RemoveOutcomes] :
              remove_snap(sel[1], sel[2], sel[3], rc, outs)
Rename ==
    Idle /\ \E node \in DOMAIN tree, n \in SnapNameArgs, o \in RenameOutcomes :
        rename(VMSnapshot(SnapshotTreeObj(tree, node)).value, n, PyNone, o)

NextVM ==
    \/ GetSnap
    \/ Revert
    \/ RemoveSnap
    \/ Rename

SpecVM == InitVM /\ [][NextVM]_vars

\* VCenter.__init__, with no virtual machine in hand.
InitVCenter ==
    /\ si = PyNone
    /\ content = PyNone
    /\ _raw_global = PyNone
    /\ _return_single = PyBool(FALSE)

NoVM ==
    /\ tree = <<>>
    /\ currentSnapshot = 0
    /\ wrapper = PyNone

\* No session has been established and no exit hook registered.
NoSession ==
    /\ sessions = <<>>
    /\ atexit = <<>>

\* The retrieval specification: a VCenter as constructed; the caller connects and
\* disconnects, sets the policy flags and calls the get_<kind> accessors.
Init ==
    /\ InitVCenter
    /\ NoVM
    /\ NoSession
    /\ remote_calls = <<>>
    /\ call = [op |-> "idle"]
    /\ ret = Return(PyNone)

Connect == Idle /\ \E e \in BOOLEAN, o \in ConnectOutcomes : connect(e, o)
Disconnect == disconnect
SetRawGlobal == Idle /\ \E value \in SetterValues : set_raw_global(value)
SetReturnSingle == Idle /\ \E value \in SetterValues : set_return_single(value)
GetVm == Idle /\ \E n \in NameArgs, l \in Listings("vim.VirtualMachine"), g, r \in BOOLEAN :
            get_vm(n, l, g, r)
GetDc == Idle /\ \E n \in NameArgs, l \in Listings("vim.Datacenter"), g, r \in BOOLEAN :
            get_dc(n, l, g, r)
GetFolder == Idle /\ \E n \in NameArgs, l \in Listings("vim.Folder"), g, r \in BOOLEAN :
            get_folder(n, l, g, r)
GetVapp == Idle /\ \E n \in NameArgs, l \in Listings("vim.VirtualApp"), g, r \in BOOLEAN :
            get_vapp(n, l, g, r)
GetNetwork == Idle /\ \E n \in NameArgs, l \in Listings("vim.Network"), g, r \in BOOLEAN :
            get_network(n, l, g, r)
GetDatastore == Idle /\ \E n \in NameArgs, l \in Listings("vim.Datastore"), g, r \in BOOLEAN :
            get_datastore(n, l, g, r)
GetHost == Idle /\ \E n \in NameArgs, l \in Listings("vim.HostSystem"), g, r \in BOOLEAN :
            get_host(n, l, g, r)
GetAll == Idle /\ \E n \in NameArgs, l \in Listings("vim.ManagedEntity"), g, r \in BOOLEAN :
            get_all(n, l, g, r)

Next ==
    \/ ReturnToCaller
    \/ Connect
    \/ Disconnect
    \/ SetRawGlobal
    \/ SetReturnSingle
    \/ GetVm
    \/ GetDc
    \/ GetFolder
    \/ GetVapp
    \/ GetNetwork
    \/ GetDatastore
    \/ GetHost
    \/ GetAll

Spec == Init /\ [][Next]_vars

NextSession ==
    \/ ReturnToCaller
    \/ Connect
    \/ Disconnect
    \/ ProcessExit
    \/ GetVm

\* The session specification: connect, disconnect, retrieval and the end of the
\* process, in any order, on one VCenter object.
SpecSession == Init /\ [][NextSession]_vars

-----------------------------------------------------------------------------
(* Typed wrapper construction, as steps of the caller *)

\* A caller constructs the wrapper cls directly from the handle vc_object.
construct(cls, vc_object) ==
    /\ Idle
    /\ ret' = Construct(cls, vc_object)
    /\ call' = [op |-> "construct", cls |-> cls, vc_object |-> vc_object]
    /\ remote_calls' = <<>>
    /\ UNCHANGED <<vcVars, vmVars, exitVars>>

Handles == {Handle(type, name, 1) : type \in VimTypes, name \in ObjNames}

ConstructWrapper == Idle /\ \E cls \in WrapperClasses, h \in Handles : construct(cls, h)

NextWrap ==
    \/ ReturnToCaller
    \/ ConstructWrapper

\* The construction specification: wrappers built from handles of every vim type.
SpecWrap == Init /\ [][NextWrap]_vars

-----------------------------------------------------------------------------
(* The task helper and the guest operations of a VM, as steps of the caller *)

RECURSIVE SetToSeq(_)
SetToSeq(S) ==
    IF S = {} THEN <<>>
    ELSE LET x == CHOOSE y \in S : TRUE
         IN <<x>> \o SetToSeq(S \ {x})

\* The faults a remote task or call of the model may raise.
Faults == {"vim.fault.NoPermission", "vim.fault.TaskInProgress", "vim.fault.NotFound",
           "vim.fault.ToolsUnavailable", "vim.fault.InvalidPowerState",
           "vmodl.fault.NotSupported", "vmodl.fault.ManagedObjectNotFound",
           "vim.fault.FileFault"}

\* The classes a caller of do_task may name in catch_exception.
CatchClasses == {"vim.fault.TaskInProgress", "vim.fault.NotFound", "vim.fault.VimFault"}

\* The argument catch_exception: None, or a list of fault classes (the empty one too).
CatchArgs == {PyNone} \cup {PyList(SetToSeq(S)) : S \in SUBSET CatchClasses}

\* `catch_exception if catch_exception else nothing`: the classes the argument names.
CatchSet(catch_exception) ==
    IF Truthy(catch_exception) THEN Range(catch_exception.v) ELSE {}

\* VMJHelper.do_task(func, catch_exception), func raising `started` when called and
\* the task it returns ending as `awaited`.
call_do_task(catch_exception, started, awaited) ==
    /\ Idle
    /\ ret' = do_task(WaitForTask(started, awaited), CatchSet(catch_exception))
    /\ call' = [op |-> "do_task", catch_exception |-> catch_exception,
                started |-> started, awaited |-> awaited]
    /\ remote_calls' = IF started = "success"
                       THEN <<[m |-> "func"], [m |-> "WaitForTask"]>>
                       ELSE <<[m |-> "func"]>>
    /\ UNCHANGED <<vcVars, vmVars, exitVars>>

\* The remote methods pyVmomi's vim.VirtualMachine offers (those the library names
\* rightly, and RebootGuest).
VirtualMachineMethods ==
    {"PowerOnVM_Task", "PowerOffVM_Task", "ShutdownGuest", "RebootGuest", "TerminateVM",
     "SuspendVM_Task", "ResetVM_Task", "CreateSnapshot_Task"}

\* self.raw_obj.<method>: the bound remote method, or AttributeError when the managed
\* object has none of that name.
GetMethod(raw_obj, method) ==
    IF method \in VirtualMachineMethods THEN Return([m |-> method])
    ELSE Raise("AttributeError", <<raw_obj.py, method>>)

\* The shape shared by shutdown, terminate and reboot: task = self.raw_obj.<method>,
\* then self._do(task, catch_exception=ex).
GuestCall(op, self, method, ex, outcome) ==
    /\ Idle
    /\ LET task == GetMethod(self._raw_obj, method)
       IN IF task.status = "raise"
          THEN /\ ret' = task
               /\ remote_calls' = <<>>
          ELSE /\ ret' = _do(self, outcome, PyList(SetToSeq(ex)))
               /\ remote_calls' = <<task.value>>
    /\ call' = [op |-> op, self |-> self, outcome |-> outcome]
    /\ UNCHANGED <<vcVars, vmVars, exitVars>>

\* VirtualMachine.shutdown()
shutdown(self, outcome) ==
    GuestCall("shutdown", self, "ShutdownGuest",
              self._ex \cup {"vim.fault.ToolsUnavailable"}, outcome)

\* VirtualMachine.terminate()
terminate(self, outcome) ==
    GuestCall("terminate", self, "TerminateVM", self._ex, outcome)

\* VirtualMachine.reboot()
reboot(self, outcome) ==
    GuestCall("reboot", self, "SRebootGuest",
              self._ex \cup {"vim.fault.TaskInProgress", "vim.fault.ToolsUnavailable"},
              outcome)

\* The VirtualMachine wrappers the caller holds.
VMWrappers ==
    {VirtualMachine(Handle("vim.VirtualMachine", n, 1)).value : n \in ObjNames}

CallOutcomes == {"success"} \cup Faults

DoTask ==
    Idle /\ \E c \in CatchArgs, s, a \in CallOutcomes : call_do_task(c, s, a)
Shutdown == Idle /\ \E vm \in VMWrappers, o \in CallOutcomes : shutdown(vm, o)
Terminate == Idle /\ \E vm \in VMWrappers, o \in CallOutcomes : terminate(vm, o)
Reboot == Idle /\ \E vm \in VMWrappers, o \in CallOutcomes : reboot(vm, o)

NextOps ==
    \/ ReturnToCaller
    \/ DoTask
    \/ Shutdown
    \/ Terminate
    \/ Reboot

\* The operations specification: the task helper called with every catch list, and the
\* guest operations of a VirtualMachine wrapper, each with every outcome of its remote
\* call.
SpecOps == Init /\ [][NextOps]_vars

-----------------------------------------------------------------------------
(* Notions the claims are stated in *)

AccessorCall == call.op \in AccessorOps

\* The wrapper class each accessor asks for.
AccessorClass(op) ==
    CASE op = "get_vm" -> "VirtualMachine"
      [] op = "get_dc" -> "Datacenter"
      [] op = "get_folder" -> "Folder"
      [] op = "get_vapp" -> "VApp"
      [] op = "get_network" -> "Network"
      [] op = "get_datastore" -> "Datastore"
      [] op = "get_host" -> "Host"
      [] OTHER -> "BaseVCObject"

\* The objects a returned value stands for: a list's elements, nothing for None, else
\* the bare element.
Elems(value) ==
    IF value.py = "list" THEN value.v
    ELSE IF value.py = "NoneType" THEN <<>>
    ELSE <<value>>

\* The name and the remote id of a result element, wrapper or raw handle.
ElemName(e) == IF e.py \in WrapperClasses THEN e._name ELSE e.name
ElemId(e) == IF e.py \in WrapperClasses THEN e._raw_obj.moId ELSE e.moId

IdsOf(seq) == [i \in 1..Len(seq) |-> ElemId(seq[i])]
NamesOf(seq) == [i \in 1..Len(seq) |-> ElemName(seq[i])]

\* The requested names of an accessor call.
Requested == IF call.name.py = "str" THEN {call.name.v} ELSE Range(call.name.v)

RECURSIVE AncestorsOrSelf(_, _)
AncestorsOrSelf(t, n) ==
    IF t[n].parent = 0 THEN {n} ELSE {n} \cup AncestorsOrSelf(t, t[n].parent)

\* The ancestor-or-self of a on the branch that leaves b's line of ancestors.
BranchRoot(t, a, b) ==
    CHOOSE x \in AncestorsOrSelf(t, a) \ AncestorsOrSelf(t, b) :
        t[x].parent \notin (AncestorsOrSelf(t, a) \ AncestorsOrSelf(t, b))

\* a comes before b in depth-first pre-order: a is an ancestor of b, or the two sit in
\* different branches and a's branch is the one further left.
Before(t, a, b) ==
    /\ a # b
    /\ \/ a \in AncestorsOrSelf(t, b)
       \/ /\ b \notin AncestorsOrSelf(t, a)
          /\ BranchRoot(t, a, b) < BranchRoot(t, b, a)

\* s lists every node of t exactly once, in depth-first pre-order.
IsPreOrder(t, s) ==
    /\ Len(s) = Cardinality(DOMAIN t)
    /\ Range(s) = DOMAIN t
    /\ \A i, j \in 1..Len(s) : i < j => Before(t, s[i], s[j])

IsRevertCall(c) == c.m = "RevertToSnapshot_Task"
IsRemoveCall(c) == c.m = "RemoveSnapshot_Task"

-----------------------------------------------------------------------------
(* The claims *)

\* C1: a get_<kind> call with a name or a list of k different names returns at most one
\* object per requested name (the first match wins, excess same-named duplicates are not
\* returned).
C1_OnePerRequestedName ==
    (AccessorCall /\ Returned /\ ~call.get_all /\ call.name.py # "NoneType"
        /\ Cardinality(Requested) = Len(NameList(call.name))) =>
        \A n \in Requested :
            Cardinality({i \in 1..Len(Elems(ret.value)) :
                            ElemName(Elems(ret.value)[i]) = n}) <= 1

\* C2: a get_<kind> call with get_all false and a name or a list of names returns, for
\* every requested name that some listed object bears, an object with that name.
C2_EveryListedNameFound ==
    (AccessorCall /\ Returned /\ ~call.get_all /\ call.name.py # "NoneType") =>
        \A n \in Requested :
            (\E i \in 1..Len(call.obj_list) : call.obj_list[i].name = n) =>
                \E j \in 1..Len(Elems(ret.value)) : ElemName(Elems(ret.value)[j]) = n

\* C3: with the collapse policy on, a one-element result is returned as the bare element,
\* an empty result as None and a longer result unchanged as a list; with the policy off a
\* list is returned always.
C3_Collapse ==
    (AccessorCall /\ Returned) =>
        LET rt == _get_return_type(_raw_global, AccessorClass(call.op), call.raw)
            full == WrapAll(SelectObjects(call.obj_list, call.name, call.get_all), rt).value
        IN IF _return_single = PyBool(TRUE)
           THEN /\ Len(full) = 1 => ret.value = full[1]
                /\ Len(full) = 0 => ret.value = PyNone
                /\ Len(full) >= 2 => ret.value = PyList(full)
           ELSE ret.value = PyList(full)

\* C3 happens: get_vm(name) under set_return_single(True) hands back one bare wrapper.
C3_Witness ==
    /\ call.op = "get_vm"
    /\ Returned
    /\ _return_single = PyBool(TRUE)
    /\ call.name.py = "str"
    /\ ret.value.py = "VirtualMachine"

\* C4: get_snap(get_all=True) returns every node of the snapshot tree exactly once, in
\* depth-first pre-order; for A -> [B, C], B -> [D] that is [A, B, D, C].
C4_GetAllPreOrder ==
    (call.op = "get_snap" /\ call.get_all /\ Returned) =>
        /\ IsPreOrder(tree, IdsOf(ret.value.v))
        /\ tree = ExampleTree => NamesOf(ret.value.v) = <<"A", "B", "D", "C">>

\* C4 happens: the whole example tree is returned.
C4_Witness ==
    /\ call.op = "get_snap"
    /\ call.get_all
    /\ Returned
    /\ tree = ExampleTree
    /\ NamesOf(ret.value.v) = <<"A", "B", "D", "C">>

\* C5: get_snap(name) returns at most one snapshot, and when some node bears the name,
\* exactly the first such node in depth-first pre-order.
C5_FirstMatchOnly ==
    (call.op = "get_snap" /\ call.name.py = "str" /\ ~call.current /\ ~call.get_all
        /\ Returned) =>
        LET named == {n \in DOMAIN tree : tree[n].name = call.name.v}
            res == IdsOf(ret.value.v)
        IN /\ Len(res) <= 1
           /\ named # {} =>
                 /\ Len(res) = 1
                 /\ res[1] \in named
                 /\ \A m \in named \ {res[1]} : Before(tree, res[1], m)

\* C6: rename returns False and keeps the cached name on the invalid-argument fault; on
\* success it returns True and the cached name is the new name (the old one if none given).
C6_RenameContract ==
    call.op = "rename" =>
        /\ call.outcome = "vim.fault.InvalidArgument" =>
              /\ ret = Return(PyBool(FALSE))
              /\ wrapper._name = call.self._name
        /\ call.outcome = "success" =>
              /\ ret = Return(PyBool(TRUE))
              /\ wrapper._name = IF call.name.py = "str" THEN call.name.v
                                 ELSE call.self._name

\* C7: revert with a selector never fails while resolving its target: it issues the
\* snapshot's revert exactly when get_snap yields one snapshot and returns False, issuing
\* none, otherwise -- also on a VM without snapshots, by name or by current.
C7_RevertResolves ==
    (call.op = "revert" /\ ~(call.snapshot_name.py = "NoneType" /\ ~call.current)) =>
        LET issued == SelectSeq(remote_calls, IsRevertCall)
            sn == get_snap(call.tree, call.currentSnapshot, call.snapshot_name,
                           call.current, FALSE, FALSE)
        IN /\ ret.status = "raise" => Len(issued) = 1
           /\ Len(issued) = 0 => ret = Return(PyBool(FALSE))
           /\ Len(issued) = 1 <=> (sn.status = "return" /\ Len(sn.value) = 1)
           /\ DOMAIN call.tree = {} => (ret = Return(PyBool(FALSE)) /\ Len(issued) = 0)

\* C8: a remove_snap call that returns has issued one removal for every snapshot get_snap
\* resolved, in order; it returns False if any removal returned False and True only if
\* every removal succeeded.
C8_RemoveAllOrFalse ==
    (call.op = "remove_snap" /\ Returned
        /\ ~(call.name.py = "NoneType" /\ ~call.current /\ ~call.remove_all)) =>
        LET rem == SelectSeq(remote_calls, IsRemoveCall)
            sn == get_snap(call.tree, call.currentSnapshot, call.name, call.current,
                           call.remove_all, FALSE).value
        IN /\ [i \in 1..Len(rem) |-> rem[i].node] = IdsOf(sn)
           /\ (\E i \in 1..Len(rem) : rem[i].outcome # "success") =>
                 ret.value = PyBool(FALSE)
           /\ (\A i \in 1..Len(rem) : rem[i].outcome = "success") =>
                 ret.value = PyBool(TRUE)

\* C8 happens: of three removals the first fails, the other two succeed, and the call
\* returns False.
C8_Witness ==
    /\ call.op = "remove_snap"
    /\ Returned
    /\ LET rem == SelectSeq(remote_calls, IsRemoveCall)
       IN /\ Len(rem) = 3
          /\ rem[1].outcome = "vim.fault.TaskInProgress"
          /\ rem[2].outcome = "success"
          /\ rem[3].outcome = "success"
    /\ ret.value = PyBool(FALSE)

\* C9: revert without snapshot_name and current, and remove_snap without name, current and
\* remove_all, return False, raise nothing, issue no remote call and read no snapshot tree.
C9_NoSelectorNoCall ==
    (\/ (call.op = "revert" /\ call.snapshot_name.py = "NoneType" /\ ~call.current)
     \/ (call.op = "remove_snap" /\ call.name.py = "NoneType" /\ ~call.current
            /\ ~call.remove_all)) =>
        /\ ret = Return(PyBool(FALSE))
        /\ remote_calls = <<>>
        /\ tree = call.tree
        /\ currentSnapshot = call.currentSnapshot

\* C9 happens: revert() on a VM that has snapshots.
C9_Witness ==
    /\ call.op = "revert"
    /\ call.snapshot_name.py = "NoneType"
    /\ ~call.current
    /\ DOMAIN tree # {}
    /\ ret = Return(PyBool(FALSE))

\* C10: constructing a typed wrapper from a handle of another kind than the one it
\* expects fails with the wrong-object-kind error, and the error names the expected kind
\* and the actual kind of the handle.
C10_WrongKindNamesBoth ==
    (call.op = "construct" /\ call.cls # "BaseVCObject"
        /\ call.vc_object.py # Expect(call.cls)) =>
        /\ Raised("WrongObjectTypeError")
        /\ Expect(call.cls) \in Range(ret.args)
        /\ call.vc_object.py \in Range(ret.args)

\* C11: do_task returns False, and propagates nothing, on a fault of the caller's
\* catch list or the no-permission fault, whether starting the task or awaiting it
\* raised it and whatever the list (None and the empty list too); a fault of no class
\* among those propagates; on success the truthy result of the wait is returned.
C11_DoTaskTolerates ==
    call.op = "do_task" =>
        LET fault == IF call.started # "success" THEN call.started ELSE call.awaited
            named == IF call.catch_exception.py = "list"
                     THEN Range(call.catch_exception.v) ELSE {}
            tolerated == named \cup {"vim.fault.NoPermission"}
        IN /\ (fault # "success" /\ fault \in tolerated) => ret = Return(PyBool(FALSE))
           /\ (fault # "success" /\ FaultClasses(fault) \cap tolerated = {}) =>
                 Raised(fault)
           /\ fault = "success" => (Returned /\ Truthy(ret.value))

\* C11 happens: the caller names no exception, the task starts and the wait ends with
\* the no-permission fault, and do_task returns False.
C11_Witness ==
    /\ call.op = "do_task"
    /\ call.catch_exception = PyNone
    /\ call.started = "success"
    /\ call.awaited = "vim.fault.NoPermission"
    /\ ret = Return(PyBool(FALSE))

\* The remote method each guest operation stands for.
GuestMethod(op) ==
    CASE op = "shutdown" -> "ShutdownGuest"
      [] op = "reboot" -> "RebootGuest"
      [] op = "terminate" -> "TerminateVM"

\* The fault classes each guest operation tolerates on the wrapper self.
GuestTolerated(op, self) ==
    CASE op = "shutdown" -> self._ex \cup {"vim.fault.ToolsUnavailable"}
      [] op = "reboot" ->
            self._ex \cup {"vim.fault.TaskInProgress", "vim.fault.ToolsUnavailable"}
      [] op = "terminate" -> self._ex

\* C12: shutdown, reboot and terminate each issue exactly one remote call, that of the
\* guest shutdown, the guest reboot and the hard terminate, and return True when it
\* succeeds and False when it raises a fault the operation tolerates.
C12_GuestOpsOneCall ==
    call.op \in {"shutdown", "reboot", "terminate"} =>
        /\ remote_calls = <<[m |-> GuestMethod(call.op)]>>
        /\ call.outcome = "success" => ret = Return(PyBool(TRUE))
        /\ call.outcome \in GuestTolerated(call.op, call.self) =>
              ret = Return(PyBool(FALSE))

\* C13: disconnect closes the remote session exactly when one is stored, leaves no
\* session stored and returns 0 either way; called with no session stored (as a second
\* disconnect in a row is) it issues no remote Disconnect and changes no state.
C13_DisconnectIdempotent ==
    [][(Idle /\ call'.op = "disconnect") =>
          /\ si' = PyNone
          /\ ret' = Return(PyInt(0))
          /\ si # PyNone => /\ remote_calls' = <<"Disconnect">>
                            /\ sessions' = [sessions EXCEPT ![si.id] = @ + 1]
          /\ si = PyNone => /\ remote_calls' = <<>>
                            /\ UNCHANGED <<vcVars, vmVars, exitVars>>]_vars

\* C13 happens: a disconnect with no session stored, after a session was closed.
C13_Witness ==
    /\ call.op = "disconnect"
    /\ remote_calls = <<>>
    /\ si = PyNone
    /\ \E id \in DOMAIN sessions : sessions[id] = 1
    /\ ret = Return(PyInt(0))

\* C18: when connect(exit_on_fault=False) returns None, no session handle and no
\* content handle is stored afterwards, whichever step of connecting failed.
C18_FailedConnectStoresNothing ==
    (call.op = "connect" /\ ~call.exit_on_fault /\ ret = Return(PyNone)) =>
        /\ si = PyNone
        /\ content = PyNone

\* C19: no session is closed more than once, and none is left open when the process
\* has ended.
C19_ClosedOnceAtExit ==
    /\ \A id \in DOMAIN sessions : sessions[id] <= 1
    /\ Terminated => \A id \in DOMAIN sessions : sessions[id] >= 1

\* C14: set_return_single given a non-boolean, and set_raw_global given neither a
\* boolean nor None, raise TypeError and leave the flag as it was; given a conforming
\* value they store it and return it.  So the collapse flag is always a boolean and the
\* wrap flag always True, False or None.
C14_SettersValidate ==
    [][/\ (Idle /\ call'.op = "set_return_single") =>
            IF call'.value \in {PyBool(TRUE), PyBool(FALSE)}
            THEN _return_single' = call'.value /\ ret' = Return(call'.value)
            ELSE _return_single' = _return_single /\ ret'.status = "raise"
                    /\ ret'.exc = "TypeError"
       /\ (Idle /\ call'.op = "set_raw_global") =>
            IF call'.value \in {PyBool(TRUE), PyBool(FALSE), PyNone}
            THEN _raw_global' = call'.value /\ ret' = Return(call'.value)
            ELSE _raw_global' = _raw_global /\ ret'.status = "raise"
                    /\ ret'.exc = "TypeError"
       /\ _return_single' \in {PyBool(TRUE), PyBool(FALSE)}
       /\ _raw_global' \in {PyBool(TRUE), PyBool(FALSE), PyNone}]_vars

\* C14 happens: set_return_single(1) raises TypeError and the flag stays True.
C14_Witness ==
    /\ call.op = "set_return_single"
    /\ call.value = PyInt(1)
    /\ Raised("TypeError")
    /\ _return_single = PyBool(TRUE)

\* C15: the results of a get_<kind> call are raw handles when the global wrap policy is
\* True and typed wrappers when it is False, whatever the per-call raw flag; the raw
\* flag decides only when the global policy is None.
C15_WrapPolicy ==
    (AccessorCall /\ Returned) =>
        LET raw_wanted == IF _raw_global = PyBool(TRUE) THEN TRUE
                          ELSE IF _raw_global = PyBool(FALSE) THEN FALSE
                          ELSE call.raw
            res == Elems(ret.value)
        IN \A i \in 1..Len(res) :
              IF raw_wanted THEN res[i].py \in VimTypes \cup {"vim.ManagedEntity"}
              ELSE res[i].py = AccessorClass(call.op)

\* C15 happens: under set_raw_global(False), get_vm(raw=True) returns wrappers.
C15_Witness ==
    /\ call.op = "get_vm"
    /\ Returned
    /\ _raw_global = PyBool(FALSE)
    /\ call.raw
    /\ Len(Elems(ret.value)) >= 1
    /\ Elems(ret.value)[1].py = "VirtualMachine"

\* C16: a get_<kind> call with get_all=True returns every member of the listing, in
\* listing order, and the same result for every value of name: the result of the call
\* with no name.
C16_GetAllIgnoresName ==
    (AccessorCall /\ Returned /\ call.get_all) =>
        /\ IdsOf(Elems(ret.value)) = [i \in 1..Len(call.obj_list) |-> call.obj_list[i].moId]
        /\ LET rt == _get_return_type(_raw_global, AccessorClass(call.op), call.raw)
               r == _get_vc_objects(content, call.obj_list, PyNone, TRUE, rt)
           IN ret = Return(single_object(r.value, _return_single))

\* C16 happens: get_vm(name=<a name no VM bears>, get_all=True) returns the whole
\* listing of two or more VMs.
C16_Witness ==
    /\ call.op = "get_vm"
    /\ Returned
    /\ call.get_all
    /\ call.name.py = "str"
    /\ Len(call.obj_list) >= 2
    /\ \A i \in 1..Len(call.obj_list) : call.obj_list[i].name # call.name.v
    /\ Len(Elems(ret.value)) = Len(call.obj_list)

\* C17: get_snap with no selector returns the empty list; with get_all it returns all
\* snapshots, whatever name and current are; else with current, on a VM that has a
\* current snapshot, it returns exactly the tree node of that snapshot, whatever name
\* is; only else is the name used, and every snapshot returned bears it.
C17_SelectorPrecedence ==
    call.op = "get_snap" =>
        /\ (call.name.py = "NoneType" /\ ~call.current /\ ~call.get_all) =>
              ret = Return(PyList(<<>>))
        /\ call.get_all =>
              /\ Returned
              /\ Len(ret.value.v) = Cardinality(DOMAIN tree)
              /\ Range(IdsOf(ret.value.v)) = DOMAIN tree
        /\ (~call.get_all /\ call.current /\ currentSnapshot # 0) =>
              /\ Returned
              /\ IdsOf(ret.value.v) = <<currentSnapshot>>
        /\ (~call.get_all /\ ~call.current /\ call.name.py = "str") =>
              /\ Returned
              /\ \A i \in 1..Len(ret.value.v) : ElemName(ret.value.v[i]) = call.name.v
              /\ (\E n \in DOMAIN tree : tree[n].name = call.name.v) =>
                    Len(ret.value.v) >= 1

\* C17 happens: get_snap(name, current=True) with the name of another snapshot, that
\* pre-order visits before the current one, returns the current snapshot alone.
C17_Witness ==
    /\ call.op = "get_snap"
    /\ ~call.get_all
    /\ call.current
    /\ call.name.py = "str"
    /\ Returned
    /\ tree[currentSnapshot].name # call.name.v
    /\ \E n \in DOMAIN tree : tree[n].name = call.name.v /\ Before(tree, n, currentSnapshot)
    /\ IdsOf(ret.value.v) = <<currentSnapshot>>

\* The snapshots the successful removals before the i-th have deleted on the remote
\* side, in the tree t the call started on.
GoneBefore(t, rem, i) ==
    UNION {IF rem[j].removeChildren THEN {rem[j].node} \cup Descendants(t, rem[j].node)
           ELSE {rem[j].node} : j \in {k \in 1..(i - 1) : rem[k].outcome = "success"}}

\* C20: every removal one remove_snap call issues targets a snapshot that still exists
\* on the remote side, and the call never ends with the remote fault for a snapshot
\* that is gone.
C20_NoStaleRemoval ==
    call.op = "remove_snap" =>
        LET rem == SelectSeq(remote_calls, IsRemoveCall)
        IN /\ \A i \in 1..Len(rem) : rem[i].node \notin GoneBefore(call.tree, rem, i)
           /\ ~Raised("vmodl.fault.ManagedObjectNotFound")

\* C21: after disconnect() neither the session handle nor the content handle is stored,
\* and a get_<kind> call made with no session stored fails locally, as one before the
\* first connect does (AttributeError on the absent content), issuing no remote request;
\* no retrieval sends a request through a session that has been closed.
C21_DisconnectedLikeFresh ==
    /\ call.op = "disconnect" => (si = PyNone /\ content = PyNone)
    /\ (AccessorCall /\ si = PyNone) =>
          (Raised("AttributeError") /\ remote_calls = <<>>)
    /\ (AccessorCall /\ remote_calls # <<>>) => ~SessionClosed(sessions, content)

====
